---- MODULE Spec2Model ----
(***************************************************************************)
(* A model of jpamb's JVM descriptor codec (lib/jpamb/jvm/base.py, and the *)
(* older lib/jpamb/jvm.py): types, method and field identifiers, absolute  *)
(* names and literal values, with the interning tables of the type         *)
(* classes.                                                                *)
(*                                                                         *)
(* A Python str is modelled as a sequence of one-character strings, so     *)
(* that slicing, splitting and regular-expression matching are computed.   *)
(***************************************************************************)
EXTENDS Integers, Sequences, FiniteSets, TLC

VARIABLES
    pc,        \* "idle" | "call" | "loop" | "done": position of the single caller
    op,        \* the operation being called
    arg,       \* its argument
    ret,       \* its outcome, once pc = "done"
    heap,      \* object identity -> the object's class and fields
    base,      \* class attributes of jvm/base.py: _instance of each class
    legacy,    \* module state of jvm.py: _instance of each class, type_instances
    decoded,   \* every (descriptor, instance) a Type.decode call has returned
    keyed      \* a caller's dict whose keys are the decoded types

vars == <<pc, op, arg, ret, heap, base, legacy, decoded, keyed>>

-----------------------------------------------------------------------------
(* Bounds of the model. *)

MaxDepth == 2      \* nesting of Array in the types drawn as inputs
MaxTypeLen == 3    \* length of the raw strings given to Type.decode
MaxParams == 2     \* number of parameters of the MethodIDs drawn as inputs
MaxMethLen == 5    \* length of the raw strings given to MethodID.decode
MaxAbsLen == 4     \* length of the raw member part given to Absolute.decode
MaxFieldLen == 4   \* length of the raw strings given to FieldID.decode
MaxArr == 3        \* length of the array payloads drawn as inputs
MaxInt == 12       \* magnitude of the integer payloads drawn as inputs
MaxToks == 4       \* number of lexemes in the raw strings given to Value.decode
MaxObjs == 3       \* number of live type instances in the interning runs

-----------------------------------------------------------------------------
(* Python str helpers. *)

\* All strings over alphabet A of length at most n.
RECURSIVE Strings(_, _)
Strings(A, n) ==
    IF n = 0 THEN {<<>>}
    ELSE LET S == Strings(A, n - 1)
         IN  S \cup {Append(s, c) : s \in {x \in S : Len(x) = n - 1}, c \in A}

\* s[i:] with a 1-based i: the suffix that starts at position i.
From(s, i) == SubSeq(s, i, Len(s))

\* c in s
Contains(s, c) == \E i \in 1..Len(s) : s[i] = c

\* whether the string w occurs in s at position i
At(s, i, w) == /\ i >= 1
               /\ i + Len(w) - 1 <= Len(s)
               /\ SubSeq(s, i, i + Len(w) - 1) = w

\* "".join(parts)
RECURSIVE Concat(_)
Concat(parts) == IF parts = <<>> THEN <<>> ELSE Head(parts) \o Concat(Tail(parts))

\* sep.join(parts)
RECURSIVE Join(_, _)
Join(sep, parts) ==
    IF parts = <<>> THEN <<>>
    ELSE IF Len(parts) = 1 THEN parts[1]
    ELSE parts[1] \o sep \o Join(sep, Tail(parts))

\* The part of the input a regular expression's "." can run over from the
\* start: "." matches anything but a line break.
FirstLine(s) ==
    IF Contains(s, "\n")
    THEN SubSeq(s, 1, (CHOOSE i \in 1..Len(s) : s[i] = "\n" /\ \A j \in 1..(i - 1) : s[j] # "\n") - 1)
    ELSE s

Max(S) == CHOOSE x \in S : \A y \in S : y <= x

-----------------------------------------------------------------------------
(* ClassName *)

ClassName(str) == [_as_string |-> str]

\* "/".join(self.parts) where parts = _as_string.split(".")
ClassName_slashed(cn) ==
    [i \in 1..Len(cn._as_string) |->
        IF cn._as_string[i] = "." THEN "/" ELSE cn._as_string[i]]

ClassName_encode(cn) == cn._as_string

ClassName_decode(input) == ClassName(input)

-----------------------------------------------------------------------------
(* Type and its ten classes. A type is a record with its class in cls.    *)

Boolean == [cls |-> "Boolean"]
\* Int of base.py (the name Int is the set of integers of module Integers)
Int_ == [cls |-> "Int"]
Byte == [cls |-> "Byte"]
Char == [cls |-> "Char"]
Long == [cls |-> "Long"]
Float == [cls |-> "Float"]
Double == [cls |-> "Double"]
Reference == [cls |-> "Reference"]
Object(name) == [cls |-> "Object", name |-> name]
Array(contains) == [cls |-> "Array", contains |-> contains]

\* return_type of a void method
None == [cls |-> "None"]

Singletons == {Boolean, Int_, Byte, Char, Long, Float, Double, Reference}

\* encode of the classes without a field
Singleton_encode(t) ==
    CASE t = Boolean -> <<"Z">>
      [] t = Int_ -> <<"I">>
      [] t = Byte -> <<"B">>
      [] t = Char -> <<"C">>
      [] t = Long -> <<"J">>
      [] t = Float -> <<"F">>
      [] t = Double -> <<"D">>
      [] t = Reference -> <<"A">>

Object_encode(t) == <<"L">> \o ClassName_slashed(t.name) \o <<";">>

RECURSIVE Type_encode(_)

Array_encode(t) == <<"[">> \o Type_encode(t.contains)

\* self.encode(), dispatched on the class of self
Type_encode(t) ==
    CASE t.cls = "Object" -> Object_encode(t)
      [] t.cls = "Array" -> Array_encode(t)
      [] OTHER -> Singleton_encode(t)

\* for k in reversed(stack): r = k(r)
RECURSIVE WrapStack(_, _)
WrapStack(r, stack) ==
    IF stack = <<>> THEN r
    ELSE WrapStack(Array(r), SubSeq(stack, 1, Len(stack) - 1))

TypeOk(t, rest) == [ok |-> TRUE, type |-> t, rest |-> rest, err |-> ""]
TypeErr(e) == [ok |-> FALSE, type |-> None, rest |-> <<>>, err |-> e]

\* The while loop of Type.decode, at position i (1-based) with the Array
\* markers seen so far in stack.
RECURSIVE Type_decode_loop(_, _, _)
Type_decode_loop(input, i, stack) ==
    IF i > Len(input) THEN TypeErr("Could not decode")
    ELSE LET c == input[i]
             done(r) == TypeOk(WrapStack(r, stack), From(input, i + 1))
         IN  CASE c = "Z" -> done(Boolean)
               [] c = "I" -> done(Int_)
               [] c = "B" -> done(Byte)
               [] c = "C" -> done(Char)
               [] c = "J" -> done(Long)
               [] c = "F" -> done(Float)
               [] c = "D" -> done(Double)
               [] c = "[" -> Type_decode_loop(input, i + 1, Append(stack, "Array"))
               [] OTHER -> TypeErr("Unknown type")

Type_decode(input) == Type_decode_loop(input, 1, <<>>)

-----------------------------------------------------------------------------
(* Outcomes: a returned value, or the ValueError raised. built lists the   *)
(* types the call has constructed on the way, in program order, also when  *)
(* it ends in an error: the constructors change the interning tables.      *)

Ok(v, built) == [ok |-> TRUE, value |-> v, err |-> "", built |-> built]
Err(e, built) == [ok |-> FALSE, value |-> None, err |-> e, built |-> built]

-----------------------------------------------------------------------------
(* ParameterType *)

ParameterType(elements) == [_elements |-> elements]

\* "".join(e.encode() for e in self._elements)
ParameterType_encode(pt) ==
    Concat([i \in 1..Len(pt._elements) |-> Type_encode(pt._elements[i])])

\* The while loop of ParameterType.decode with params decoded so far.
RECURSIVE ParameterType_decode_loop(_, _)
ParameterType_decode_loop(input, params) ==
    IF input = <<>> THEN Ok(ParameterType(params), params)
    ELSE LET step(r) ==
                 IF r.ok
                 THEN ParameterType_decode_loop(r.rest, Append(params, r.type))
                 ELSE Err(r.err, params)
         IN  step(Type_decode(input))

ParameterType_decode(input) == ParameterType_decode_loop(input, <<>>)

-----------------------------------------------------------------------------
(* MethodID *)

MethodID(name, params, return_type) ==
    [name |-> name, params |-> params, return_type |-> return_type]

NoMatch == [matched |-> FALSE]

\* METHOD_ID_RE.match(input) for (?P<method_name>.*)\:\((?P<params>.*)\)(?P<return>.*)
\* match() anchors the start only, and "." stops at a line break: the match
\* lies in the first line. The greedy method_name ends at the last ":(" that
\* still has a ")" after it, the greedy params at the last ")", and return
\* runs to the end of the line. end is the length of the matched text.
METHOD_ID_RE_match(input) ==
    LET in(line) ==
            LET closers(i) == {j \in (i + 2)..Len(line) : line[j] = ")"}
                groups(i, j) ==
                    [matched |-> TRUE,
                     method_name |-> SubSeq(line, 1, i - 1),
                     params |-> SubSeq(line, i + 2, j - 1),
                     return |-> SubSeq(line, j + 1, Len(line)),
                     end |-> Len(line)]
                from(starts) ==
                    IF starts = {} THEN NoMatch
                    ELSE groups(Max(starts), Max(closers(Max(starts))))
            IN  from({i \in 1..Len(line) :
                         At(line, i, <<":", "(">>) /\ closers(i) # {}})
    IN  in(FirstLine(input))

MethodID_decode(input) ==
    LET \* MethodID(name=..., params=ParameterType.decode(...), return_type=...)
        make(match, rt, rtbuilt, ps) ==
            IF ~ps.ok THEN Err(ps.err, rtbuilt \o ps.built)
            ELSE Ok(MethodID(match.method_name, ps.value, rt.type),
                    rtbuilt \o ps.built)
        \* after return_type, more = Type.decode(match["return"])
        returned(match, rt, rtbuilt) ==
            IF ~rt.ok THEN Err(rt.err, <<>>)
            ELSE IF rt.rest # <<>>
            THEN Err("could not decode method id, bad return type", rtbuilt)
            ELSE make(match, rt, rtbuilt, ParameterType_decode(match.params))
        typed(match, rt) == returned(match, rt, IF rt.ok THEN <<rt.type>> ELSE <<>>)
        matched(match) ==
            IF ~match.matched THEN Err("invalid method name", <<>>)
            ELSE IF match.return = <<"V">> THEN returned(match, TypeOk(None, <<>>), <<>>)
            ELSE typed(match, Type_decode(match.return))
    IN  matched(METHOD_ID_RE_match(input))

MethodID_encode(m) ==
    LET rt == IF m.return_type # None THEN Type_encode(m.return_type) ELSE <<"V">>
    IN  m.name \o <<":", "(">> \o ParameterType_encode(m.params) \o <<")">> \o rt

-----------------------------------------------------------------------------
(* FieldID *)

FieldID(name, type) == [name |-> name, type |-> type]

FieldID_encode(f) == f.name \o <<":">> \o Type_encode(f.type)

FieldID_decode(input) ==
    IF ~Contains(input, ":") THEN Err("invalid field id format", <<>>)
    ELSE
    \* name, type_str = input.split(":", 1)
    LET typed(name, r) ==
            IF ~r.ok THEN Err(r.err, <<>>)
            ELSE IF r.rest # <<>> THEN Err("extra characters in field type", <<r.type>>)
            ELSE Ok(FieldID(name, r.type), <<r.type>>)
        split(at) == typed(SubSeq(input, 1, at - 1), Type_decode(From(input, at + 1)))
    IN  split(CHOOSE i \in 1..Len(input) :
                  input[i] = ":" /\ \A j \in 1..(i - 1) : input[j] # ":")

-----------------------------------------------------------------------------
(* Absolute *)

Absolute(classname, extension) == [classname |-> classname, extension |-> extension]

\* ABSOLUTE_RE.match(input) for (?P<class_name>.+)\.(?P<rest>.*): the greedy
\* class_name ends at the last "." of the first line that has a character
\* before it.
ABSOLUTE_RE_match(input) ==
    LET in(line) ==
            LET groups(i) ==
                    [matched |-> TRUE,
                     class_name |-> SubSeq(line, 1, i - 1),
                     rest |-> SubSeq(line, i + 1, Len(line)),
                     end |-> Len(line)]
                from(dots) == IF dots = {} THEN NoMatch ELSE groups(Max(dots))
            IN  from({i \in 2..Len(line) : line[i] = "."})
    IN  in(FirstLine(input))

\* The callable given to Absolute.decode, by name.
Extension_decode(decode, input) ==
    IF decode = "MethodID.decode" THEN MethodID_decode(input)
    ELSE FieldID_decode(input)

\* extension.encode() of a MethodID or a FieldID
Extension_encode(x) ==
    IF "params" \in DOMAIN x THEN MethodID_encode(x) ELSE FieldID_encode(x)

Absolute_decode(input, decode) ==
    LET make(match, x) ==
            IF ~x.ok THEN x
            ELSE Ok(Absolute(ClassName_decode(match.class_name), x.value), x.built)
        matched(match) ==
            IF ~match.matched THEN Err("invalid absolute method name", <<>>)
            ELSE make(match, Extension_decode(decode, match.rest))
    IN  matched(ABSOLUTE_RE_match(input))

Absolute_encode(a) ==
    ClassName_encode(a.classname) \o <<".">> \o Extension_encode(a.extension)

-----------------------------------------------------------------------------
(* Value *)

Value(type, value) == [type |-> type, value |-> value]

\* __eq__ of the dataclass Value: the tuples (type, value) are equal.
Value_eq(a, b) == a.type = b.type /\ a.value = b.value

\* == of two lists of Values
Values_eq(xs, ys) ==
    /\ Len(xs) = Len(ys)
    /\ \A i \in 1..Len(xs) : Value_eq(xs[i], ys[i])

Digits == <<"0", "1", "2", "3", "4", "5", "6", "7", "8", "9">>

HexDigits ==
    <<"0", "1", "2", "3", "4", "5", "6", "7", "8", "9", "A", "B", "C", "D", "E", "F">>

RECURSIVE hex(_)
hex(n) ==
    IF n < 16 THEN HexDigits[n + 1]
    ELSE hex(n \div 16) \o HexDigits[(n % 16) + 1]

\* A character outside ASCII is written by the name of its code point, U+
\* and four hexadecimal digits or more: one element of a str as any other
\* character ("U+0663" is ARABIC-INDIC DIGIT THREE).
CodePointName(n) ==
    "U+" \o (IF n < 16 THEN "000" ELSE IF n < 256 THEN "00"
             ELSE IF n < 4096 THEN "0" ELSE "") \o hex(n)

\* The decimal digits (category Nd) outside ASCII come in runs of ten, 0 to
\* 9 in the order of the code points: the code point of each run's zero, in
\* Unicode 15 (the module needs Python 3.12, for the syntax of Absolute).
DigitZeros ==
    {1632, 1776, 1984, 2406, 2534, 2662, 2790, 2918, 3046,
     3174, 3302, 3430, 3558, 3664, 3792, 3872, 4160, 4240,
     6112, 6160, 6470, 6608, 6784, 6800, 6992, 7088, 7232,
     7248, 42528, 43216, 43264, 43472, 43504, 43600, 44016, 65296,
     66720, 68912, 69734, 69872, 69942, 70096, 70384, 70736, 70864,
     71248, 71360, 71472, 71904, 72016, 72784, 73040, 73120, 73552,
     92768, 92864, 93008, 120782, 120792, 120802, 120812, 120822, 123200,
     123632, 124144, 125264, 130032}

\* The decimal digits outside ASCII: the character, its code point, and the
\* value int() gives it.
UnicodeDigits ==
    {[char |-> CodePointName(z + d), ord |-> z + d, digit |-> d] :
        z \in DigitZeros, d \in 0..9}

UnicodeDigitChars == {u.char : u \in UnicodeDigits}

\* \d of a str pattern: any Unicode decimal digit, the ASCII ones among them.
IsDigit(c) ==
    \/ \E d \in 1..Len(Digits) : Digits[d] = c
    \/ c \in UnicodeDigitChars

\* The value int() gives a decimal digit.
DigitValue(c) ==
    IF c \in UnicodeDigitChars
    THEN (CHOOSE u \in UnicodeDigits : u.char = c).digit
    ELSE (CHOOSE d \in 1..Len(Digits) : Digits[d] = c) - 1

\* str(n) of a natural number
RECURSIVE str_nat(_)
str_nat(n) ==
    IF n < 10 THEN <<Digits[n + 1]>>
    ELSE str_nat(n \div 10) \o <<Digits[(n % 10) + 1]>>

\* str(n) of an int
str(n) == IF n < 0 THEN <<"-">> \o str_nat(-n) ELSE str_nat(n)

\* int(s) of a string of digits
RECURSIVE int_digits(_, _)
int_digits(s, acc) ==
    IF s = <<>> THEN acc
    ELSE int_digits(Tail(s), 10 * acc + DigitValue(Head(s)))

\* int(s) for s matching -?\d+
int(s) == IF Head(s) = "-" THEN -int_digits(Tail(s), 0) ELSE int_digits(s, 0)

Quoted(c) == <<"'", c, "'">>

\* Value.encode: the match on self.type; a value of another type falls out
\* of the match and is returned as it is, and an Array of another content
\* ends in raise NotImplemented(), which is a TypeError.
Value_encode(v) ==
    CASE v.type = Boolean ->
            Ok(IF v.value THEN <<"t", "r", "u", "e">> ELSE <<"f", "a", "l", "s", "e">>, <<>>)
      [] v.type = Int_ -> Ok(str(v.value), <<>>)
      [] v.type = Char -> Ok(Quoted(v.value), <<>>)
      [] v.type = Array(Int_) ->
            Ok(<<"[", "I", ":">>
               \o Join(<<",", " ">>, [i \in 1..Len(v.value) |-> str(v.value[i])])
               \o <<"]">>, <<>>)
      [] v.type = Array(Char) ->
            Ok(<<"[", "C", ":">>
               \o Join(<<",", " ">>, [i \in 1..Len(v.value) |-> Quoted(v.value[i])])
               \o <<"]">>, <<>>)
      [] v.type.cls = "Array" -> Err("TypeError", <<>>)
      [] OTHER -> Ok(v.value, <<>>)

-----------------------------------------------------------------------------
(* ValueParser *)

Token(kind, value) == [kind |-> kind, value |-> value]

\* head is None
NoToken == Token("None", <<>>)

IsBlank(c) == c \in {" ", "\t"}

\* \d+ at position i: the number of digits from there on.
RECURSIVE DigitRun(_, _)
DigitRun(s, i) == IF i <= Len(s) /\ IsDigit(s[i]) THEN 1 + DigitRun(s, i + 1) ELSE 0

\* [ \t]+ at position i: the number of blanks from there on.
RECURSIVE BlankRun(_, _)
BlankRun(s, i) == IF i <= Len(s) /\ IsBlank(s[i]) THEN 1 + BlankRun(s, i + 1) ELSE 0

\* The alternative of token_specification that matches at position i, the
\* first in the order of the list, with the length of its match; "NONE" when
\* none does.
TokenAt(s, i) ==
    LET digitsAt(k) == DigitRun(s, k)
        lexeme(kind, len) == [kind |-> kind, len |-> len]
    IN  CASE i + 2 <= Len(s) /\ s[i] = "[" /\ s[i + 1] \in {"I", "C"} /\ s[i + 2] = ":" ->
                lexeme("OPEN_ARRAY", 3)
          [] s[i] = "]" -> lexeme("CLOSE_ARRAY", 1)
          [] s[i] = "-" /\ digitsAt(i + 1) > 0 -> lexeme("INT", 1 + digitsAt(i + 1))
          [] digitsAt(i) > 0 -> lexeme("INT", digitsAt(i))
          [] At(s, i, <<"t", "r", "u", "e">>) -> lexeme("BOOL", 4)
          [] At(s, i, <<"f", "a", "l", "s", "e">>) -> lexeme("BOOL", 5)
          [] i + 2 <= Len(s) /\ s[i] = "'" /\ s[i + 1] # "'" /\ s[i + 2] = "'" ->
                lexeme("CHAR", 3)
          [] s[i] = "," -> lexeme("COMMA", 1)
          [] IsBlank(s[i]) -> lexeme("SKIP", BlankRun(s, i))
          [] OTHER -> lexeme("NONE", 0)

\* re.finditer(tok_regex, string) from position i: the matches in order, each
\* found at the first position at or after the end of the one before. gaps
\* are the positions that lie in no match: finditer passes over them.
RECURSIVE Scan(_, _, _, _)
Scan(s, i, tokens, gaps) ==
    IF i > Len(s) THEN [tokens |-> tokens, gaps |-> gaps]
    ELSE LET on(m) ==
                 CASE m.kind = "NONE" -> Scan(s, i + 1, tokens, gaps \cup {i})
                   [] m.kind = "SKIP" -> Scan(s, i + m.len, tokens, gaps)
                   [] OTHER ->
                        Scan(s, i + m.len,
                             Append(tokens, Token(m.kind, SubSeq(s, i, i + m.len - 1))),
                             gaps)
         IN  on(TokenAt(s, i))

\* ValueParser.tokenize(string), as the list of the tokens it yields
tokenize(string) == Scan(string, 1, <<>>, {}).tokens

\* The parser: pos is the index of head in the token list (head is None
\* past the end), built the types constructed so far.
Parser(pos, built) == [pos |-> pos, built |-> built]

head(toks, vp) == IF vp.pos <= Len(toks) THEN toks[vp.pos] ELSE NoToken

\* self.next()
next(vp) == [vp EXCEPT !.pos = @ + 1]

\* The outcome of a parser method: a value and the parser after it, or the
\* ValueError of self.expected(...).
Parsed(v, vp) == [ok |-> TRUE, value |-> v, vp |-> vp, err |-> ""]
expected(e, vp) == [ok |-> FALSE, value |-> None, vp |-> vp, err |-> e]

expect(toks, vp, kind) ==
    LET with(hd) ==
            IF hd = NoToken THEN expected(kind, vp)
            ELSE IF kind # hd.kind THEN expected(kind, vp)
            ELSE Parsed(hd, next(vp))
    IN  with(head(toks, vp))

parse_int(toks, vp) ==
    LET with(tok) == IF tok.ok THEN Parsed(int(tok.value.value), tok.vp) ELSE tok
    IN  with(expect(toks, vp, "INT"))

parse_bool(toks, vp) ==
    LET with(tok) ==
            IF tok.ok THEN Parsed(tok.value.value = <<"t", "r", "u", "e">>, tok.vp)
            ELSE tok
    IN  with(expect(toks, vp, "BOOL"))

parse_char(toks, vp) ==
    LET with(tok) == IF tok.ok THEN Parsed(tok.value.value[2], tok.vp) ELSE tok
    IN  with(expect(toks, vp, "CHAR"))

\* Value.int, Value.char, Value.boolean around the outcome of a parser
\* method: cls(Int(), n) constructs the type after the token is parsed.
Wrapped(type, r) ==
    IF r.ok THEN Parsed(Value(type, r.value), [r.vp EXCEPT !.built = Append(@, type)])
    ELSE r

RECURSIVE parse_comma_seperated_values(_, _, _, _)

parse_array(toks, vp) ==
    LET \* self.expect("CLOSE_ARRAY"); return Value(type, tuple(inputs))
        closed(type, inputs, close) ==
            IF ~close.ok THEN close
            ELSE Parsed(Value(type, inputs.value), close.vp)
        listed(type, inputs) ==
            IF ~inputs.ok THEN inputs
            ELSE closed(type, inputs, expect(toks, inputs.vp, "CLOSE_ARRAY"))
        \* type = Array(Int()) or Array(Char()), then the elements
        opened(key, type, parser) ==
            listed(type,
                   parse_comma_seperated_values(
                       toks, [key.vp EXCEPT !.built = Append(@, type)],
                       parser, "CLOSE_ARRAY"))
        keyed_by(key) ==
            IF ~key.ok THEN key
            ELSE IF key.value.value = <<"[", "I", ":">>
            THEN opened(key, Array(Int_), "parse_int")
            ELSE opened(key, Array(Char), "parse_char")
    IN  keyed_by(expect(toks, vp, "OPEN_ARRAY"))

parse_value(toks, vp) ==
    LET on(hd) ==
            CASE hd = NoToken -> expected("token", vp)
              [] hd.kind = "INT" -> Wrapped(Int_, parse_int(toks, vp))
              [] hd.kind = "CHAR" -> Wrapped(Char, parse_char(toks, vp))
              [] hd.kind = "BOOL" -> Wrapped(Boolean, parse_bool(toks, vp))
              [] hd.kind = "OPEN_ARRAY" -> parse_array(toks, vp)
              [] OTHER -> expected("char", vp)
    IN  on(head(toks, vp))

\* parser(): the bound method given to parse_comma_seperated_values, by name
call_parser(toks, vp, parser) ==
    CASE parser = "parse_int" -> parse_int(toks, vp)
      [] parser = "parse_char" -> parse_char(toks, vp)
      [] OTHER -> parse_value(toks, vp)

\* A lenient loop that lets a list end in a comma: a comma followed by no
\* token or by the closing bracket ends the list.
RECURSIVE comma_loop_lenient(_, _, _, _)
comma_loop_lenient(toks, vp, parser, inputs) ==
    LET more(r) ==
            IF r.ok THEN comma_loop_lenient(toks, r.vp, parser, Append(inputs, r.value))
            ELSE r
        after(hd) ==
            IF hd = NoToken \/ hd.kind = "CLOSE_ARRAY" THEN Parsed(inputs, next(vp))
            ELSE more(call_parser(toks, next(vp), parser))
        on(hd) ==
            IF hd # NoToken /\ hd.kind = "COMMA"
            THEN after(head(toks, next(vp)))
            ELSE Parsed(inputs, vp)
    IN  on(head(toks, vp))

\* The while loop of parse_comma_seperated_values with inputs so far.
RECURSIVE comma_loop(_, _, _, _)
comma_loop(toks, vp, parser, inputs) ==
    LET more(r) ==
            IF r.ok THEN comma_loop(toks, r.vp, parser, Append(inputs, r.value))
            ELSE r
        on(hd) ==
            IF hd # NoToken /\ hd.kind = "COMMA"
            THEN more(call_parser(toks, next(vp), parser))
            ELSE Parsed(inputs, vp)
    IN  on(head(toks, vp))

parse_comma_seperated_values(toks, vp, parser, end_by) ==
    LET first(r) ==
            IF r.ok THEN comma_loop(toks, r.vp, parser, <<r.value>>) ELSE r
        on(hd) ==
            IF hd = NoToken THEN Parsed(<<>>, vp)
            ELSE IF end_by # "None" /\ hd.kind = end_by THEN Parsed(<<>>, vp)
            ELSE first(call_parser(toks, vp, parser))
    IN  on(head(toks, vp))

\* vp.eof()
eof(toks, vp) ==
    IF head(toks, vp) = NoToken THEN Parsed(None, vp)
    ELSE expected("end of file", vp)

\* Value.decode(input), and Value.decode_many(input), which has the same body
Value_decode(input) ==
    LET ended(value, end) ==
            IF ~end.ok THEN Err(end.err, end.vp.built)
            ELSE Ok(value.value, value.vp.built)
        parsed(toks, value) ==
            IF ~value.ok THEN Err(value.err, value.vp.built)
            ELSE ended(value, eof(toks, value.vp))
        tokens(toks) ==
            parsed(toks,
                   parse_comma_seperated_values(
                       toks, Parser(1, <<>>), "parse_value", "None"))
    IN  tokens(tokenize(input))

-----------------------------------------------------------------------------
(* Instances and the interning tables.                                     *)
(* heap is the sequence of the type objects allocated so far; an object's  *)
(* identity is its index. mod tells base.py's classes from jvm.py's, which *)
(* are different class objects of the same name.                           *)

NoInstance == 0

HeapObject(mod, cls, contains, name) ==
    [mod |-> mod, cls |-> cls, contains |-> contains, name |-> name]

NoName == ClassName(<<>>)

SingletonClasses ==
    {"Boolean", "Int", "Byte", "Char", "Long", "Float", "Double", "Reference"}

\* The class attributes before any instance exists: _instance = None in the
\* classes without a field, _instance = dict() in Object and Array.
EmptyTables ==
    [singleton |-> [c \in SingletonClasses |-> NoInstance],
     Object_instance |-> {},
     Array_instance |-> {}]

\* Module state of jvm.py: the same class attributes, and type_instances.
EmptyLegacy ==
    [singleton |-> [c \in SingletonClasses |-> NoInstance],
     Object_instance |-> {},
     Array_instance |-> {},
     type_instances |-> {}]

\* The outcome of a constructor call: the heap, the tables, the instance.
Made(h, tbl, inst) == [heap |-> h, tbl |-> tbl, inst |-> inst]

\* hash(s) of a str: equal for equal strings only. It is a pair, which no
\* tuple of a type's fields is, so it differs from every hash of a tuple.
str_hash(s) == <<"str", s>>

\* __hash__ of a frozen dataclass: the hash of the tuple of its fields (the
\* class is no part of it). The hash of a tuple is modelled by the tuple of
\* its items' hashes: () for a class without a field, (hash(contains),) for
\* an Array, (hash(name),) for an Object with hash(name) = (hash(_as_string),).
RECURSIVE Type_hash(_, _)
Type_hash(h, a) ==
    CASE h[a].cls = "Array" -> <<Type_hash(h, h[a].contains)>>
      [] h[a].cls = "Object" -> <<<<str_hash(h[a].name._as_string)>>>>
      [] OTHER -> <<>>

\* __eq__ of a dataclass: the same class, and the tuples of fields equal
\* (a tuple's items are equal when identical or ==).
RECURSIVE Type_eq(_, _, _)
Type_eq(h, a, b) ==
    /\ h[a].mod = h[b].mod
    /\ h[a].cls = h[b].cls
    /\ CASE h[a].cls = "Array" ->
               \/ h[a].contains = h[b].contains
               \/ /\ h[a].contains # NoInstance
                  /\ h[b].contains # NoInstance
                  /\ Type_eq(h, h[a].contains, h[b].contains)
         [] h[a].cls = "Object" -> h[a].name = h[b].name
         [] OTHER -> TRUE

\* The entries of a dict with type objects as keys that a lookup of k finds:
\* equal hash, and identical or equal.
DictFind(h, d, k) ==
    {e \in d : /\ Type_hash(h, e[1]) = Type_hash(h, k)
               /\ (e[1] = k \/ Type_eq(h, e[1], k))}

\* __new__ of a class without a field.
Singleton_new(h, tbl, mod, cls) ==
    IF tbl.singleton[cls] = NoInstance
    THEN LET inst == Len(h) + 1
         IN  Made(Append(h, HeapObject(mod, cls, NoInstance, NoName)),
                  [tbl EXCEPT !.singleton[cls] = inst],
                  inst)
    ELSE Made(h, tbl, tbl.singleton[cls])

\* A defective Array.__new__ that allocates on every call and overwrites
\* the table entry of its key.
Array_new_always(h, tbl, mod, subtype) ==
    LET found == DictFind(h, tbl.Array_instance, subtype)
        inst == Len(h) + 1
        key == IF found = {} THEN subtype ELSE (CHOOSE e \in found : TRUE)[1]
    IN  Made(Append(h, HeapObject(mod, "Array", NoInstance, NoName)),
             [tbl EXCEPT !.Array_instance = (@ \ found) \cup {<<key, inst>>}],
             inst)

\* Array.__new__(cls, subtype)
Array_new(h, tbl, mod, subtype) ==
    LET found == DictFind(h, tbl.Array_instance, subtype)
        inst == Len(h) + 1
    IN  IF found = {}
        THEN Made(Append(h, HeapObject(mod, "Array", NoInstance, NoName)),
                  [tbl EXCEPT !.Array_instance = @ \cup {<<subtype, inst>>}],
                  inst)
        ELSE Made(h, tbl, (CHOOSE e \in found : TRUE)[2])

\* Array(subtype): __new__, then the dataclass __init__ sets contains.
Array_call(h, tbl, mod, subtype) ==
    LET init(m) == Made([m.heap EXCEPT ![m.inst].contains = subtype], m.tbl, m.inst)
    IN  init(Array_new(h, tbl, mod, subtype))

\* Object.__new__(cls, subtype): the keys are ClassNames, compared by value.
Object_new(h, tbl, mod, subtype) ==
    LET found == {e \in tbl.Object_instance : e[1] = subtype}
        inst == Len(h) + 1
    IN  IF found = {}
        THEN Made(Append(h, HeapObject(mod, "Object", NoInstance, NoName)),
                  [tbl EXCEPT !.Object_instance = @ \cup {<<subtype, inst>>}],
                  inst)
        ELSE Made(h, tbl, (CHOOSE e \in found : TRUE)[2])

\* Object(name): __new__, then the dataclass __init__ sets name.
Object_call(h, tbl, mod, name) ==
    LET init(m) == Made([m.heap EXCEPT ![m.inst].name = name], m.tbl, m.inst)
    IN  init(Object_new(h, tbl, mod, name))

\* The constructor calls that build the type t, innermost first: r = Int(),
\* then r = Array(r) once per Array around it.
RECURSIVE Construct(_, _, _, _)
Construct(h, tbl, mod, t) ==
    CASE t.cls = "Array" ->
            \* the inner constructor has returned before Array is called
            LET around == {Array_call(m.heap, m.tbl, mod, m.inst) :
                              m \in {Construct(h, tbl, mod, t.contains)}}
            IN  CHOOSE made \in around : TRUE
      [] t.cls = "Object" -> Object_call(h, tbl, mod, t.name)
      [] OTHER -> Singleton_new(h, tbl, mod, t.cls)

\* Construct for each type of a sequence in turn; inst is the last instance.
\* A constructor has returned its instance before the next one is called.
RECURSIVE ConstructAll(_, _, _, _)
ConstructAll(h, tbl, mod, ts) ==
    IF ts = <<>> THEN Made(h, tbl, NoInstance)
    ELSE LET then(m) ==
                 IF m.inst # NoInstance /\ Len(ts) > 1
                 THEN ConstructAll(m.heap, m.tbl, mod, Tail(ts))
                 ELSE m
         IN  then(Construct(h, tbl, mod, Head(ts)))

\* Type.from_json: Int() for "integer" and "int", Reference() for "ref",
\* Boolean() for "boolean"; any other json raises NotImplementedError before
\* a constructor is called.
Type_from_json(h, tbl, json) ==
    LET return(m) ==
            [ok |-> TRUE, err |-> "", heap |-> m.heap, tbl |-> m.tbl, inst |-> m.inst]
    IN  CASE json = <<"i", "n", "t", "e", "g", "e", "r">> ->
                return(Singleton_new(h, tbl, "base", "Int"))
          [] json = <<"i", "n", "t">> ->
                return(Singleton_new(h, tbl, "base", "Int"))
          [] json = <<"r", "e", "f">> ->
                return(Singleton_new(h, tbl, "base", "Reference"))
          [] json = <<"b", "o", "o", "l", "e", "a", "n">> ->
                return(Singleton_new(h, tbl, "base", "Boolean"))
          [] OTHER ->
                [ok |-> FALSE, err |-> "NotImplementedError",
                 heap |-> h, tbl |-> tbl, inst |-> NoInstance]

\* Value.from_json: cls(Type.from_json(json["type"]), json["value"]); value
\* is the Value made, of the type the instance stands for.
Value_from_json(h, tbl, json) ==
    LET cls(m) ==
            IF m.ok
            THEN [m EXCEPT !.inst = NoInstance] @@
                 [type |-> m.inst, value |-> Value([cls |-> m.heap[m.inst].cls], json.value)]
            ELSE m
    IN  cls(Type_from_json(h, tbl, json.type))

\* The type an instance stands for.
RECURSIVE TypeOf(_, _)
TypeOf(h, a) ==
    CASE h[a].cls = "Array" -> Array(TypeOf(h, h[a].contains))
      [] h[a].cls = "Object" -> Object(h[a].name)
      [] OTHER -> [cls |-> h[a].cls]

\* Type.decode of jvm.py: the tags Z, I, B and C only.
RECURSIVE Legacy_decode_loop(_, _, _)
Legacy_decode_loop(input, i, stack) ==
    IF i > Len(input) THEN TypeErr("Could not decode")
    ELSE LET c == input[i]
             done(r) == TypeOk(WrapStack(r, stack), From(input, i + 1))
         IN  CASE c = "Z" -> done(Boolean)
               [] c = "I" -> done(Int_)
               [] c = "B" -> done(Byte)
               [] c = "C" -> done(Char)
               [] c = "[" -> Legacy_decode_loop(input, i + 1, Append(stack, "Array"))
               [] OTHER -> TypeErr("Unknown type")

\* tuple(stack + [r]): the Array classes of the stack, then the class r.
RECURSIVE Legacy_key(_)
Legacy_key(t) ==
    IF t.cls = "Array" THEN <<"Array">> \o Legacy_key(t.contains) ELSE <<t.cls>>

\* The end of Type.decode of jvm.py: key = tuple(stack + [r]); the instance
\* cached in type_instances under the key, or else built and cached.
Legacy_intern(h, tbl, t) ==
    LET cache(key, m) ==
            Made(m.heap,
                 [m.tbl EXCEPT !.type_instances = @ \cup {<<key, m.inst>>}],
                 m.inst)
        lookup(key, found) ==
            IF found = {} THEN cache(key, Construct(h, tbl, "jvm", t))
            ELSE Made(h, tbl, (CHOOSE e \in found : TRUE)[2])
        with(key) == lookup(key, {e \in tbl.type_instances : e[1] = key})
    IN  with(Legacy_key(t))

-----------------------------------------------------------------------------
(* The interning runs: any sequence of Type.decode calls and direct        *)
(* constructions, by a caller that keeps the decoded types as dict keys.   *)

\* Descriptors the interning runs decode (some of them malformed).
InternDescriptors ==
    {<<"I">>, <<"[", "I">>, <<"[", "[", "I">>, <<"C">>, <<"[", "C">>, <<"[">>}

LegacyDescriptors == {<<"I">>, <<"[", "I">>, <<"J">>}

InternClassNames == {ClassName(<<"a", ".", "B">>)}

InitIntern ==
    /\ pc = "idle"
    /\ op = "none"
    /\ arg = <<>>
    /\ ret = NoInstance
    /\ heap = <<>>
    /\ base = EmptyTables
    /\ legacy = EmptyLegacy
    /\ decoded = {}
    /\ keyed = {}

\* d[k] = ... in a dict d whose keys are type objects.
DictAdd(h, d, k) == IF DictFind(h, {<<e>> : e \in d}, k) = {} THEN d \cup {k} ELSE d

\* What the caller has seen Type.decode return: descriptor, instance, and
\* whether a later call returned that instance for that descriptor again.
Seen(mod, desc, inst) ==
    IF \E d \in decoded : d.mod = mod /\ d.desc = desc /\ d.inst = inst
    THEN {IF d.mod = mod /\ d.desc = desc /\ d.inst = inst
          THEN [d EXCEPT !.again = TRUE] ELSE d : d \in decoded}
    ELSE decoded \cup {[mod |-> mod, desc |-> desc, inst |-> inst, again |-> FALSE]}

\* t, _ = Type.decode(s); d[t] = ...   (jvm/base.py)
DecodeAndKey(s) ==
    \E r \in {Type_decode(s)} :
    \E m \in {IF r.ok THEN Construct(heap, base, "base", r.type)
              ELSE Made(heap, base, NoInstance)} :
        /\ pc = "idle"
        /\ Len(m.heap) <= MaxObjs
        /\ heap' = m.heap
        /\ base' = m.tbl
        /\ decoded' = IF r.ok THEN Seen("base", s, m.inst) ELSE decoded
        /\ keyed' = IF r.ok THEN DictAdd(m.heap, keyed, m.inst) ELSE keyed
        /\ UNCHANGED <<pc, op, arg, ret, legacy>>

\* t, _ = Type.decode(s); d[t] = ...   (jvm.py)
LegacyDecodeAndKey(s) ==
    \E r \in {Legacy_decode_loop(s, 1, <<>>)} :
    \E m \in {IF r.ok THEN Legacy_intern(heap, legacy, r.type)
              ELSE Made(heap, legacy, NoInstance)} :
        /\ pc = "idle"
        /\ Len(m.heap) <= MaxObjs
        /\ heap' = m.heap
        /\ legacy' = m.tbl
        /\ decoded' = IF r.ok THEN Seen("jvm", s, m.inst) ELSE decoded
        /\ keyed' = IF r.ok THEN DictAdd(m.heap, keyed, m.inst) ELSE keyed
        /\ UNCHANGED <<pc, op, arg, ret, base>>

\* The classes without a field that a module declares: eight in jvm/base.py,
\* four in jvm.py.
ClassesOf(mod) ==
    IF mod = "base" THEN SingletonClasses ELSE {"Boolean", "Int", "Byte", "Char"}

\* Int(), Char(), ... of either module: a direct construction of a class
\* without a field, by the caller or by a function that makes a Value
\* (Value.int, Value.boolean, Value.char, the parser of Value.decode).
NewSingleton(mod, cls) ==
    \E m \in {Singleton_new(heap, IF mod = "base" THEN base ELSE legacy, mod, cls)} :
        /\ pc = "idle"
        /\ Len(m.heap) <= MaxObjs
        /\ heap' = m.heap
        /\ base' = IF mod = "base" THEN m.tbl ELSE base
        /\ legacy' = IF mod = "base" THEN legacy ELSE m.tbl
        /\ UNCHANGED <<pc, op, arg, ret, decoded, keyed>>

\* Array(x) for an instance x the caller holds.
NewArray(x) ==
    \E mod \in {heap[x].mod} :
    \E m \in {Array_call(heap, IF mod = "base" THEN base ELSE legacy, mod, x)} :
        /\ pc = "idle"
        /\ Len(m.heap) <= MaxObjs
        /\ heap' = m.heap
        /\ base' = IF mod = "base" THEN m.tbl ELSE base
        /\ legacy' = IF mod = "base" THEN legacy ELSE m.tbl
        /\ UNCHANGED <<pc, op, arg, ret, decoded, keyed>>

\* Object(ClassName(...))
NewObject(cn) ==
    \E m \in {Object_call(heap, base, "base", cn)} :
        /\ pc = "idle"
        /\ Len(m.heap) <= MaxObjs
        /\ heap' = m.heap
        /\ base' = m.tbl
        /\ UNCHANGED <<pc, op, arg, ret, legacy, decoded, keyed>>

\* The json type names the interning runs pass to from_json: the four that
\* Type.from_json knows, and one that it does not.
JsonTypes ==
    {<<"i", "n", "t", "e", "g", "e", "r">>, <<"i", "n", "t">>, <<"r", "e", "f">>,
     <<"b", "o", "o", "l", "e", "a", "n">>, <<"f", "l", "o", "a", "t">>}

JsonValues == {[type |-> t, value |-> 1] : t \in JsonTypes}

\* Type.from_json(json): the caller drops the type, or catches the error.
TypeFromJson(json) ==
    \E m \in {Type_from_json(heap, base, json)} :
        /\ pc = "idle"
        /\ Len(m.heap) <= MaxObjs
        /\ heap' = m.heap
        /\ base' = m.tbl
        /\ UNCHANGED <<pc, op, arg, ret, legacy, decoded, keyed>>

\* Value.from_json(json): the caller drops the Value, or catches the error.
ValueFromJson(json) ==
    \E m \in {Value_from_json(heap, base, json)} :
        /\ pc = "idle"
        /\ Len(m.heap) <= MaxObjs
        /\ heap' = m.heap
        /\ base' = m.tbl
        /\ UNCHANGED <<pc, op, arg, ret, legacy, decoded, keyed>>

NextIntern ==
    \/ \E s \in InternDescriptors : DecodeAndKey(s)
    \/ \E s \in LegacyDescriptors : LegacyDecodeAndKey(s)
    \/ \E mod \in {"base", "jvm"} : \E cls \in ClassesOf(mod) : NewSingleton(mod, cls)
    \/ \E json \in JsonTypes : TypeFromJson(json)
    \/ \E json \in JsonValues : ValueFromJson(json)
    \/ \E x \in 1..Len(heap) : NewArray(x)
    \/ \E cn \in InternClassNames : NewObject(cn)

SpecIntern == InitIntern /\ [][NextIntern]_vars

\* C2, first part: two decodes of the same descriptor return the same
\* instance; the instances returned for a descriptor are equal and hash
\* identically; and the caller's dict keyed by decoded types holds exactly one
\* key per distinct descriptor decoded.
CanonicalDecode ==
    /\ \A d, e \in decoded :
          (d.mod = e.mod /\ d.desc = e.desc) =>
              /\ d.inst = e.inst
              /\ Type_eq(heap, d.inst, e.inst)
              /\ Type_hash(heap, d.inst) = Type_hash(heap, e.inst)
    /\ Cardinality(keyed) = Cardinality({<<d.mod, d.desc>> : d \in decoded})
    /\ \A d \in decoded : d.inst \in keyed

\* C2, second part: every entry of an interning table stays, with its value.
TablesAppendOnly ==
    /\ base.Array_instance \subseteq base'.Array_instance
    /\ base.Object_instance \subseteq base'.Object_instance
    /\ legacy.Array_instance \subseteq legacy'.Array_instance
    /\ legacy.type_instances \subseteq legacy'.type_instances
    /\ \A c \in SingletonClasses :
          /\ base.singleton[c] # NoInstance => base'.singleton[c] = base.singleton[c]
          /\ legacy.singleton[c] # NoInstance => legacy'.singleton[c] = legacy.singleton[c]

\* C2: after any sequence of Type.decode calls and direct constructions, two
\* decodes of one descriptor give equal values with one hash that are the same
\* canonical instance, a dict keyed by decoded types holds one entry per
\* distinct descriptor, and no interning table entry is replaced or removed.
C2_CanonicalIdentity == []CanonicalDecode /\ [][TablesAppendOnly]_vars

\* Both modules have returned, for one descriptor, the same instance twice (an
\* Array in base.py), and the caller's dict holds several keys.
C2_Witness ==
    /\ \E d \in decoded : d.again /\ heap[d.inst].cls = "Array" /\ d.mod = "base"
    /\ \E d \in decoded : d.again /\ d.mod = "jvm"
    /\ Cardinality(keyed) >= 2

-----------------------------------------------------------------------------
(* The codec calls: one call of one operation on one input.                *)

ClassNames == {ClassName(<<"a">>), ClassName(<<"a", ".", "B">>)}

\* The valid types with at most d Arrays around a singleton or an Object.
RECURSIVE TypesOfDepth(_)
TypesOfDepth(d) ==
    IF d = 0 THEN Singletons \cup {Object(cn) : cn \in ClassNames}
    ELSE LET S == TypesOfDepth(d - 1) IN S \cup {Array(t) : t \in S}

Types == TypesOfDepth(MaxDepth)

\* All sequences over S of length at most n (Strings, for any elements).
SeqsUpTo(S, n) == Strings(S, n)

TypeAlphabet == {"Z", "I", "B", "C", "J", "F", "D", "[", "L", ";", "A", "a"}
TypeInputs == Strings(TypeAlphabet, MaxTypeLen)

\* Method names without ":(" in them.
MethodNames ==
    {<<>>, <<"f">>, <<"r", "u", "n">>, <<"a", ":", "b">>, <<"g", "(">>,
     <<"h", ":">>, <<"a", "\n", "b">>}
ParamTypes == {Int_, Char, Array(Int_), Array(Array(Boolean)), Reference,
               Object(ClassName(<<"a", ".", "B">>))}
ReturnTypes == {None, Boolean, Long, Array(Int_), Object(ClassName(<<"a">>))}
MethodIDs ==
    {MethodID(n, ParameterType(ps), rt) :
        n \in MethodNames, ps \in SeqsUpTo(ParamTypes, MaxParams), rt \in ReturnTypes}

MethodAlphabet == {":", "(", ")", "V", "I", "\n"}
MethodExamples ==
    {<<"r", "u", "n", ":", "(", "I", "C", ")", "Z">>,
     <<"b", "a", "d">>,
     <<"i", "n", "i", "t", ":", "(", ")", "V">>,
     <<"f", ":", "(", ")", "V", "\n", "X">>,
     <<"f", ":", "(", "[", "I", ")", "[", "[", "J">>,
     <<"f", ":", "(", ")", "I", "I">>}
MethodInputs == Strings(MethodAlphabet, MaxMethLen) \cup MethodExamples

AbsoluteAlphabet == {":", "(", ")", "V", "."}
AbsolutePrefixes == {<<>>, <<"a", ".">>, <<"a", ".", "b", ".">>}
AbsoluteSuffixes == {<<>>, <<"\n", "X">>, <<"\n", ".", "x">>}
AbsoluteInputs ==
    {[input |-> p \o m \o x, decode |-> "MethodID.decode"] :
        p \in AbsolutePrefixes, m \in Strings(AbsoluteAlphabet, MaxAbsLen),
        x \in AbsoluteSuffixes}

FieldNames ==
    {<<>>, <<"c", "o", "u", "n", "t">>, <<"a", ":", "b">>, <<"a", ":", "I">>,
     <<"x", "\n", "y">>}
FieldIDs == {FieldID(n, t) : n \in FieldNames, t \in Types}
FieldAlphabet == {"c", ":", "I", "[", "L"}
FieldExamples == {<<"n", "o", "C", "o", "l", "o", "n">>}
FieldInputs == Strings(FieldAlphabet, MaxFieldLen) \cup FieldExamples

CharPayloads == {"a", "'", ",", " ", "]", "1", "\n", "x", "U+0663"}
ArrayInts == {1, 2, 3, -10}
ArrayChars == {"a", "'", ","}
\* The types of the well-formed Values, and the payloads of each.
ValueTypes == {Boolean, Int_, Char, Array(Int_), Array(Char)}
Payloads(type) ==
    CASE type = Boolean -> BOOLEAN
      [] type = Int_ -> (-MaxInt)..MaxInt
      [] type = Char -> CharPayloads
      [] type = Array(Int_) -> SeqsUpTo(ArrayInts, MaxArr)
      [] type = Array(Char) -> SeqsUpTo(ArrayChars, MaxArr)
Values(type) == {Value(type, x) : x \in Payloads(type)}

Lexemes ==
    {<<"[", "I", ":">>, <<"[", "C", ":">>, <<"]">>, <<"1", "2">>,
     <<"'", "a", "'">>, <<",">>, <<" ">>, <<"x">>}
ValueExamples ==
    {<<"t", "r", "u", "e", ",", "f", "a", "l", "s", "e">>,
     <<"[", "I", ":", "1", ",", " ", "2", ",", " ", "3", "]">>,
     <<"-", "7", ",", "-", "x">>,
     <<"U+0663">>, <<"-", "U+FF11", "2">>, <<"[", "I", ":", "1", "U+0664", "]">>,
     <<"U+0967", "U+1D7CE">>, <<"U+1E4F1", "U+11F50">>}
ValueInputs == {Concat(ls) : ls \in SeqsUpTo(Lexemes, MaxToks)} \cup ValueExamples

Pending == [ok |-> FALSE, err |-> "pending"]

Init ==
    /\ pc = "call"
    /\ ret = Pending
    /\ heap = <<>>
    /\ base = EmptyTables
    /\ legacy = EmptyLegacy
    /\ decoded = {}
    /\ keyed = {}
    /\ \/ op = "Type.decode" /\ arg \in TypeInputs
       \/ op = "Type.roundtrip" /\ arg \in Types
       \/ op = "MethodID.decode" /\ arg \in MethodInputs
       \/ op = "MethodID.roundtrip" /\ arg \in MethodIDs
       \/ op = "FieldID.decode" /\ arg \in FieldInputs
       \/ op = "FieldID.roundtrip" /\ arg \in FieldIDs
       \/ op = "Absolute.decode" /\ arg \in AbsoluteInputs
       \/ op = "Value.decode" /\ arg \in ValueInputs
       \/ op = "Value.roundtrip" /\ \E type \in ValueTypes : arg \in Values(type)

\* The call returns or raises r, having constructed the types of built.
Returns(r, built) ==
    LET with(m) ==
            /\ pc' = "done"
            /\ ret' = r
            /\ heap' = m.heap
            /\ base' = m.tbl
            /\ UNCHANGED <<op, arg, legacy, decoded, keyed>>
    IN  with(ConstructAll(heap, base, "base", built))

\* What a Type.decode outcome has constructed.
TypeBuilt(r) == IF r.ok THEN <<r.type>> ELSE <<>>

\* Type.decode(arg)
CallTypeDecode ==
    /\ pc = "call" /\ op = "Type.decode"
    /\ LET with(r) == Returns(r, TypeBuilt(r))
       IN  with(Type_decode(arg))

\* Type.decode(t.encode()) for a type t the caller has constructed
CallTypeRoundTrip ==
    /\ pc = "call" /\ op = "Type.roundtrip"
    /\ LET with(r) == Returns(r, <<arg>> \o TypeBuilt(r))
       IN  with(Type_decode(Type_encode(arg)))

\* MethodID.decode(arg)
CallMethodIDDecode ==
    /\ pc = "call" /\ op = "MethodID.decode"
    /\ LET with(r) == Returns(r, r.built)
       IN  with(MethodID_decode(arg))

\* MethodID.decode(m.encode()) for a MethodID m the caller has constructed
CallMethodIDRoundTrip ==
    /\ pc = "call" /\ op = "MethodID.roundtrip"
    /\ LET own == arg.params._elements
                  \o (IF arg.return_type = None THEN <<>> ELSE <<arg.return_type>>)
           with(r) == Returns(r, own \o r.built)
       IN  with(MethodID_decode(MethodID_encode(arg)))

\* FieldID.decode(arg)
CallFieldIDDecode ==
    /\ pc = "call" /\ op = "FieldID.decode"
    /\ LET with(r) == Returns(r, r.built)
       IN  with(FieldID_decode(arg))

\* FieldID.decode(f.encode()) for a FieldID f the caller has constructed
CallFieldIDRoundTrip ==
    /\ pc = "call" /\ op = "FieldID.roundtrip"
    /\ LET with(r) == Returns(r, <<arg.type>> \o r.built)
       IN  with(FieldID_decode(FieldID_encode(arg)))

\* Absolute.decode(arg.input, arg.decode)
CallAbsoluteDecode ==
    /\ pc = "call" /\ op = "Absolute.decode"
    /\ LET with(r) == Returns(r, r.built)
       IN  with(Absolute_decode(arg.input, arg.decode))

\* Value.decode(arg)
CallValueDecode ==
    /\ pc = "call" /\ op = "Value.decode"
    /\ LET with(r) == Returns(r, r.built)
       IN  with(Value_decode(arg))

\* Value.decode(v.encode()) for a Value v the caller has constructed
CallValueRoundTrip ==
    /\ pc = "call" /\ op = "Value.roundtrip"
    /\ LET with(r) == Returns(r, <<arg.type>> \o r.built)
       IN  with(Value_decode(Value_encode(arg).value))

Next ==
    \/ CallTypeDecode
    \/ CallTypeRoundTrip
    \/ CallMethodIDDecode
    \/ CallMethodIDRoundTrip
    \/ CallFieldIDDecode
    \/ CallFieldIDRoundTrip
    \/ CallAbsoluteDecode
    \/ CallValueDecode
    \/ CallValueRoundTrip

Spec == Init /\ [][Next]_vars

Done(name) == pc = "done" /\ op = name

-----------------------------------------------------------------------------
(* Properties of the codec calls.                                          *)

\* C1: for every valid type t of the ten variants, nested in Arrays,
\* t.encode() succeeds and Type.decode(t.encode()) returns exactly (t, ""):
\* the same type and an empty remainder.
C1_TypeRoundTrip ==
    Done("Type.roundtrip") => ret = TypeOk(arg, <<>>)

\* The number of "[" at the start of s.
RECURSIVE LeadingBrackets(_)
LeadingBrackets(s) ==
    IF s # <<>> /\ Head(s) = "[" THEN 1 + LeadingBrackets(Tail(s)) ELSE 0

\* s has a recognized tag at position i: one of the seven primitive tags,
\* or an L that starts an "L<name>;" with a name.
RecognizedTag(s, i) ==
    /\ i <= Len(s)
    /\ \/ s[i] \in {"Z", "I", "B", "C", "J", "F", "D"}
       \/ s[i] = "L" /\ \E j \in (i + 2)..Len(s) : s[j] = ";"

\* The number of Arrays around the base type of t.
RECURSIVE ArrayDepth(_)
ArrayDepth(t) == IF t.cls = "Array" THEN 1 + ArrayDepth(t.contains) ELSE 0

\* C3: Type.decode(s) fails when, after the leading "[" characters, the input
\* is exhausted or the next character is no recognized tag (Z, I, B, C, J, F,
\* D, or L starting an "L...;" object name); otherwise it returns the base
\* type wrapped in Array once per leading "[" with the unconsumed suffix r,
\* and encode(result) + r is s.
C3_TypeDecode ==
    Done("Type.decode") =>
        IF RecognizedTag(arg, LeadingBrackets(arg) + 1)
        THEN /\ ret.ok
             /\ ArrayDepth(ret.type) = LeadingBrackets(arg)
             /\ Type_encode(ret.type) \o ret.rest = arg
        ELSE ~ret.ok

\* C4: for every MethodID m whose name has no ":(" in it, with any sequence
\* of valid types as params and any valid type or none as return type,
\* MethodID.decode(m.encode()) == m.
C4_MethodIDRoundTrip ==
    Done("MethodID.roundtrip") => ret.ok /\ ret.value = arg

\* s is, as a whole, of the form name:(params)return on one line.
WholeMethodForm(s) ==
    /\ ~Contains(s, "\n")
    /\ \E i \in 1..Len(s) :
          At(s, i, <<":", "(">>) /\ \E j \in (i + 2)..Len(s) : s[j] = ")"

\* The return field is "V" or a type descriptor that decodes to the end.
GoodReturn(return) ==
    \/ return = <<"V">>
    \/ Type_decode(return).ok /\ Type_decode(return).rest = <<>>

\* C5: MethodID.decode rejects every input that is not, as a whole, of the
\* form name:(params)return, nothing after the match being ignored, also not
\* after a line break; it rejects a return field that is neither "V" nor a
\* type descriptor decoding with an empty remainder; "run:(IC)Z" decodes to
\* name "run", params [Int, Char], return Boolean, and "bad" fails.
C5_MethodIDDecodeRejects ==
    Done("MethodID.decode") =>
        /\ ~WholeMethodForm(arg) => ~ret.ok /\ ret.err = "invalid method name"
        /\ (WholeMethodForm(arg) /\ ~GoodReturn(METHOD_ID_RE_match(arg).return))
              => ~ret.ok
        /\ arg = <<"r", "u", "n", ":", "(", "I", "C", ")", "Z">> =>
              /\ ret.ok
              /\ ret.value = MethodID(<<"r", "u", "n">>,
                                      ParameterType(<<Int_, Char>>), Boolean)
        /\ arg = <<"b", "a", "d">> => ~ret.ok /\ ret.err = "invalid method name"

\* C6: for every input s on which Absolute.decode(s, MethodID.decode)
\* succeeds, the decoded value's encode() is exactly s.
C6_AbsoluteStringRoundTrip ==
    (Done("Absolute.decode") /\ ret.ok) => Absolute_encode(ret.value) = arg.input

\* The position of the first ":" of s.
FirstColon(s) ==
    CHOOSE i \in 1..Len(s) : s[i] = ":" /\ \A j \in 1..(i - 1) : s[j] # ":"

\* C7: for every FieldID f, of any name and any valid type,
\* FieldID.decode(f.encode()) == f; FieldID.decode splits its input at the
\* first ":", fails with invalid-field-id when there is none, and fails with
\* extra-characters when one type descriptor does not consume all the text
\* after the ":".
C7_FieldIDRoundTrip ==
    /\ Done("FieldID.roundtrip") => ret.ok /\ ret.value = arg
    /\ Done("FieldID.decode") =>
          /\ ~Contains(arg, ":") => ~ret.ok /\ ret.err = "invalid field id format"
          /\ ret.ok =>
                /\ ret.value.name = SubSeq(arg, 1, FirstColon(arg) - 1)
                /\ Type_encode(ret.value.type) = From(arg, FirstColon(arg) + 1)
          /\ (/\ Contains(arg, ":")
              /\ Type_decode(From(arg, FirstColon(arg) + 1)).ok
              /\ Type_decode(From(arg, FirstColon(arg) + 1)).rest # <<>>)
                => ~ret.ok /\ ret.err = "extra characters in field type"

\* C8: for every well-formed Value v (a boolean, an integer, a single
\* character of any kind, a tuple of integers typed Array(Int) or a tuple of
\* characters typed Array(Char), the empty tuples too),
\* Value.decode(v.encode()) yields v itself, with its type and payload.
C8_ValueRoundTrip ==
    Done("Value.roundtrip") => ret.ok /\ Values_eq(ret.value, <<arg>>)

\* s has a character that lies in no token of the value grammar.
HasUnrecognized(s) == Scan(s, 1, <<>>, {}).gaps # {}

\* C9: Value.decode and Value.decode_many fail on any input with a character
\* sequence that is none of the recognized tokens; no such input is decoded
\* successfully, no unrecognized character is passed over.
C9_UnrecognizedTokenRejected ==
    (Done("Value.decode") /\ HasUnrecognized(arg)) => ~ret.ok

\* The kind of a token, the two array openers told apart.
KindOf(tok) ==
    IF tok.kind = "OPEN_ARRAY" THEN tok.value[2] ELSE tok.kind

\* toks[a..b] is empty, or elements of kind k with a comma between each two.
Separated(toks, a, b, k) ==
    \/ b = a - 1
    \/ /\ (b - a) % 2 = 0
       /\ \A i \in a..b :
             KindOf(toks[i]) = (IF (i - a) % 2 = 0 THEN k ELSE "COMMA")

\* toks[a..b] is one element of a top-level list: a scalar, or an array
\* from its opener to its closer.
IsElement(toks, a, b) ==
    \/ a = b /\ KindOf(toks[a]) \in {"INT", "CHAR", "BOOL"}
    \/ /\ a < b
       /\ KindOf(toks[b]) = "CLOSE_ARRAY"
       /\ \/ KindOf(toks[a]) = "I" /\ Separated(toks, a + 1, b - 1, "INT")
          \/ KindOf(toks[a]) = "C" /\ Separated(toks, a + 1, b - 1, "CHAR")

\* toks from position a on is one element followed by zero or more
\* (comma, element) pairs.
RECURSIVE ElementsFrom(_, _)
ElementsFrom(toks, a) ==
    \E b \in a..Len(toks) :
        /\ IsElement(toks, a, b)
        /\ \/ b = Len(toks)
           \/ /\ b < Len(toks)
              /\ KindOf(toks[b + 1]) = "COMMA"
              /\ ElementsFrom(toks, b + 2)

\* The token sequences of a list: none, or elements with commas between.
ListGrammar(toks) == toks = <<>> \/ ElementsFrom(toks, 1)

\* toks has a comma with no element after it: at the end, or before a "]".
CommaWithoutElement(toks) ==
    \E i \in 1..Len(toks) :
        /\ KindOf(toks[i]) = "COMMA"
        /\ (i = Len(toks) \/ KindOf(toks[i + 1]) = "CLOSE_ARRAY")

\* C10: parse_comma_seperated_values accepts exactly the token sequences that
\* are empty or one element followed by zero or more (comma, element) pairs,
\* at top level and between the brackets of an array; a comma with no element
\* after it is rejected ("[I:1,]" and "1,"); no tokens give the empty list;
\* and Value.decode rejects any token left after the list.
C10_CommaSeparatedGrammar ==
    Done("Value.decode") =>
        /\ ret.ok <=> ListGrammar(tokenize(arg))
        /\ CommaWithoutElement(tokenize(arg)) => ~ret.ok
        /\ tokenize(arg) = <<>> => ret.ok /\ ret.value = <<>>

\* Value.decode has rejected "[I:12,]", and would have rejected "12,".
C10_Witness ==
    /\ Done("Value.decode")
    /\ arg = <<"[", "I", ":", "1", "2", ",", "]">>
    /\ ~ret.ok
    /\ ~Value_decode(<<"1", "2", ",">>).ok
    /\ Value_decode(<<"[", "I", ":", "1", "2", ",", " ", "1", "2", "]">>).ok


\* The positions of the "." in s.
Dots(s) == {i \in 1..Len(s) : s[i] = "."}

\* What a split of s at its last "." gives: the class name before it, and
\* the outcome of the decoder d on everything after it.
SplitAtLastDot(s, d) ==
    [classname |-> ClassName(SubSeq(s, 1, Max(Dots(s)) - 1)),
     extension |-> Extension_decode(d, From(s, Max(Dots(s)) + 1))]

\* C14: Absolute.decode(input, d) splits the input at its last ".": the class
\* name is everything before that dot and the extension is d applied to
\* everything after it; when d fails on that suffix the whole decode fails,
\* no earlier dot being tried; an input without a "." fails with
\* invalid-absolute-name.
C14_SplitAtLastDot ==
    Done("Absolute.decode") =>
        IF Dots(arg.input) = {}
        THEN ~ret.ok /\ ret.err = "invalid absolute method name"
        ELSE LET split == SplitAtLastDot(arg.input, arg.decode)
             IN  /\ ~split.extension.ok => ~ret.ok
                 /\ ret.ok => /\ split.extension.ok
                              /\ ret.value = Absolute(split.classname,
                                                      split.extension.value)

-----------------------------------------------------------------------------
(* Rich comparison: <, as Python dispatches it to __lt__ and __gt__.       *)

\* The printable ASCII characters from code point 32 to 95, and from 97 on.
Ascii ==
    <<" ", "!", "\"", "#", "$", "%", "&", "'", "(", ")", "*", "+",
      ",", "-", ".", "/", "0", "1", "2", "3", "4", "5", "6", "7",
      "8", "9", ":", ";", "<", "=", ">", "?", "@", "A", "B", "C",
      "D", "E", "F", "G", "H", "I", "J", "K", "L", "M", "N", "O",
      "P", "Q", "R", "S", "T", "U", "V", "W", "X", "Y", "Z", "[",
      "\\", "]", "^", "_">>
AsciiLower ==
    <<"a", "b", "c", "d", "e", "f", "g", "h", "i", "j", "k", "l",
      "m", "n", "o", "p", "q", "r", "s", "t", "u", "v", "w", "x",
      "y", "z", "{", "|", "}", "~">>

\* ord(c)
ord(c) ==
    IF c = "\n" THEN 10
    ELSE IF c \in UnicodeDigitChars
    THEN (CHOOSE u \in UnicodeDigits : u.char = c).ord
    ELSE IF \E i \in 1..Len(Ascii) : Ascii[i] = c
    THEN 31 + (CHOOSE i \in 1..Len(Ascii) : Ascii[i] = c)
    ELSE 96 + (CHOOSE i \in 1..Len(AsciiLower) : AsciiLower[i] = c)

\* The bool a comparison returns.
PyBool(b) == IF b THEN "True" ELSE "False"

\* s < t of two tuples of int: the items at the first index where the two
\* differ decide, and a proper prefix is smaller.
tuple_lt(s, t) ==
    \E i \in 1..Len(t) :
        /\ i <= Len(s) + 1
        /\ SubSeq(s, 1, i - 1) = SubSeq(t, 1, i - 1)
        /\ \/ i = Len(s) + 1
           \/ s[i] < t[i]

\* The code points of a str, which decide its comparisons.
ords(s) == [i \in 1..Len(s) |-> ord(s[i])]

chr_lt(c, d) == ord(c) < ord(d)

\* s < t and s <= t of two str
str_lt(s, t) == tuple_lt(ords(s), ords(t))
str_le(s, t) == s = t \/ str_lt(s, t)

\* The classes of Type declared with order=True: the dataclass gives them
\* __lt__, __le__, __gt__ and __ge__ of their own.
OrderedClasses == {"Reference", "Object", "Array"}

\* ClassName.__lt__ of the dataclass: the tuples (_as_string,) compared.
ClassName_lt(a, b) == PyBool(str_lt(a._as_string, b._as_string))

\* Type.__lt__ and Type.__eq__: self.encode() <= other.encode(); None has
\* no encode.
Type_lt(self, other) ==
    IF other = None THEN "AttributeError"
    ELSE PyBool(str_le(Type_encode(self), Type_encode(other)))

RECURSIVE Py_lt(_, _)

\* type(self).__lt__(self, other) for self a Type or None.
lt_method(self, other) ==
    CASE self = None -> "NotImplemented"
      [] self.cls \in OrderedClasses ->
            IF other.cls # self.cls THEN "NotImplemented"
            ELSE IF self = other THEN "False"
            ELSE IF self.cls = "Array" THEN Py_lt(self.contains, other.contains)
            ELSE ClassName_lt(self.name, other.name)
      [] OTHER -> Type_lt(self, other)

\* type(self).__gt__(self, other), reached when __lt__ of other has
\* returned NotImplemented: the __gt__ of an order=True dataclass, which
\* other is then no instance of, and the __gt__ that total_ordering derives
\* from Type.__lt__, which is "not self < other and self != other".
gt_method(self, other) ==
    CASE self = None -> "NotImplemented"
      [] self.cls \in OrderedClasses -> "NotImplemented"
      [] OTHER ->
            LET derived(op_result) ==
                    IF op_result \notin {"True", "False"} THEN op_result
                    ELSE PyBool(op_result = "False" /\ self # other)
            IN  derived(Type_lt(self, other))

\* a < b for a and b a Type or None: __lt__ of a, then the reflected __gt__
\* of b, then TypeError.
Py_lt(a, b) ==
    LET reflected(r) == IF r # "NotImplemented" THEN r ELSE "TypeError"
        direct(r) == IF r # "NotImplemented" THEN r ELSE reflected(gt_method(b, a))
    IN  direct(lt_method(a, b))

\* x < y of two payloads of the type.
Payload_lt(type, x, y) ==
    CASE type = Boolean -> ~x /\ y
      [] type = Int_ -> x < y
      [] type = Char -> chr_lt(x, y)
      [] type = Array(Int_) -> tuple_lt(x, y)
      [] type = Array(Char) -> str_lt(x, y)

\* Value.__lt__ of the dataclass: the tuples (type, value) compared.
Value_lt(self, other) ==
    IF self.type # other.type THEN Py_lt(self.type, other.type)
    ELSE IF self.value = other.value THEN "False"
    ELSE PyBool(Payload_lt(self.type, self.value, other.value))

\* s < t of two tuples of types: the outcome of < on the items at the first
\* index where the two differ, and otherwise the shorter tuple is smaller.
types_lt(s, t) ==
    LET differ == {i \in 1..Len(s) : i <= Len(t) /\ s[i] # t[i]}
        first == CHOOSE i \in differ : \A j \in differ : i <= j
    IN  IF differ # {} THEN Py_lt(s[first], t[first])
        ELSE PyBool(Len(s) < Len(t))

\* ParameterType.__lt__ of the dataclass: the tuples (_elements,) compared.
ParameterType_lt(self, other) ==
    IF self._elements = other._elements THEN "False"
    ELSE types_lt(self._elements, other._elements)

\* MethodID.__lt__ of the dataclass: the tuples (name, params, return_type)
\* compared.
MethodID_lt(self, other) ==
    IF self.name # other.name THEN PyBool(str_lt(self.name, other.name))
    ELSE IF self.params # other.params THEN ParameterType_lt(self.params, other.params)
    ELSE IF self.return_type # other.return_type
    THEN Py_lt(self.return_type, other.return_type)
    ELSE "False"

\* sorted(xs) of a list of at most two MethodIDs: with two, the one
\* comparison xs[1] < xs[0] decides whether they are swapped.
sorted(xs) ==
    IF Len(xs) < 2 THEN Ok(xs, <<>>)
    ELSE LET with(r) ==
                 IF r \notin {"True", "False"} THEN Err(r, <<>>)
                 ELSE Ok(IF r = "True" THEN <<xs[2], xs[1]>> ELSE xs, <<>>)
         IN  with(MethodID_lt(xs[2], xs[1]))

\* sorted(xs) == sorted(sorted(xs))
sorted_twice(xs) ==
    LET again(once, twice) ==
            IF ~twice.ok THEN twice ELSE Ok(once.value = twice.value, <<>>)
        with(once) ==
            IF ~once.ok THEN once ELSE again(once, sorted(once.value))
    IN  with(sorted(xs))


-----------------------------------------------------------------------------
(* Calls on constructed objects: comparison, sorting and Value.encode.     *)

\* Two Values for a comparison, each of any of the well-formed types.
ValuePairs(t1, t2) ==
    {[self |-> a, other |-> b] : a \in Values(t1), b \in Values(t2)}

\* The MethodIDs that are compared and sorted.
OrderNames == {<<"f">>, <<"g", "o">>}
OrderParamTypes == {Int_, Char, Array(Int_)}
OrderReturnTypes == {None, Int_, Boolean, Array(Int_), Reference}
OrderMethodIDs ==
    {MethodID(n, ParameterType(ps), rt) :
        n \in OrderNames, ps \in SeqsUpTo(OrderParamTypes, MaxParams),
        rt \in OrderReturnTypes}
MethodIDPairs(ids) == {[self |-> a, other |-> b] : a \in ids, b \in ids}
MethodIDLists(ids) == SeqsUpTo(ids, 2)

\* The Values that are encoded: the well-formed ones, and an integer
\* payload under each of the other types.
EncodeValues(type) ==
    IF type \in ValueTypes THEN Values(type)
    ELSE {Value(type, n) : n \in (-MaxInt)..MaxInt}

InitObjects ==
    /\ pc = "call"
    /\ ret = Pending
    /\ heap = <<>>
    /\ base = EmptyTables
    /\ legacy = EmptyLegacy
    /\ decoded = {}
    /\ keyed = {}
    /\ \/ op = "Value.__lt__" /\ \E t1, t2 \in ValueTypes : arg \in ValuePairs(t1, t2)
       \/ op = "MethodID.__lt__" /\ arg \in MethodIDPairs(OrderMethodIDs)
       \/ op = "sorted" /\ arg \in MethodIDLists(OrderMethodIDs)
       \/ op = "Value.encode" /\ \E type \in Types : arg \in EncodeValues(type)

\* What the caller gets from a comparison: its bool, or the exception.
Compared(r) ==
    IF r \in {"True", "False"} THEN Ok(r = "True", <<>>) ELSE Err(r, <<>>)

\* a < b for two Values the caller has constructed
CallValueLt ==
    /\ pc = "call" /\ op = "Value.__lt__"
    /\ LET with(r) == Returns(Compared(r), <<arg.self.type, arg.other.type>>)
       IN  with(Value_lt(arg.self, arg.other))

\* The types of a MethodID the caller has constructed.
TypesOfMethodID(m) ==
    m.params._elements \o (IF m.return_type = None THEN <<>> ELSE <<m.return_type>>)

\* a < b for two MethodIDs the caller has constructed
CallMethodIDLt ==
    /\ pc = "call" /\ op = "MethodID.__lt__"
    /\ LET with(r) == Returns(Compared(r), TypesOfMethodID(arg.self)
                                           \o TypesOfMethodID(arg.other))
       IN  with(MethodID_lt(arg.self, arg.other))

\* sorted(xs) == sorted(sorted(xs)) for a list of MethodIDs
CallSorted ==
    /\ pc = "call" /\ op = "sorted"
    /\ LET with(r) == Returns(r, Concat([i \in 1..Len(arg) |-> TypesOfMethodID(arg[i])]))
       IN  with(sorted_twice(arg))

\* v.encode() for a Value v the caller has constructed
CallValueEncode ==
    /\ pc = "call" /\ op = "Value.encode"
    /\ LET with(r) == Returns(r, <<arg.type>>)
       IN  with(Value_encode(arg))

NextObjects ==
    \/ CallValueLt
    \/ CallMethodIDLt
    \/ CallSorted
    \/ CallValueEncode

SpecObjects == InitObjects /\ [][NextObjects]_vars

-----------------------------------------------------------------------------
(* Properties of the calls on constructed objects.                         *)

\* C11: any two Values are ordered by the lexicographic order of their
\* encodings: a < b holds exactly when a.encode() < b.encode() as strings,
\* so Int 9 and Int 10 are ordered as the strings "9" and "10".
C11_ValueOrderIsEncodingOrder ==
    Done("Value.__lt__") =>
        /\ ret.ok
        /\ ret.value <=> str_lt(Value_encode(arg.self).value,
                                Value_encode(arg.other).value)


\* The tuple (name, params, return_type) of a MethodID.
MethodTuple(m) == <<m.name, m.params, m.return_type>>

\* C12: any two MethodIDs can be compared without an exception, also when
\* they differ only in the return type, one void and one a Type, and when
\* their params hold equal primitive types; the outcome is that of the tuples
\* (name, params, return_type): equal tuples are not smaller, the names
\* decide when they differ, then the params, then the return types; so
\* sorting a list succeeds and sorted(xs) == sorted(sorted(xs)).
C12_MethodIDOrder ==
    /\ Done("MethodID.__lt__") =>
          /\ ret.ok
          /\ MethodTuple(arg.self) = MethodTuple(arg.other) => ~ret.value
          /\ arg.self.name # arg.other.name =>
                (ret.value <=> str_lt(arg.self.name, arg.other.name))
          /\ (arg.self.name = arg.other.name /\ arg.self.params # arg.other.params) =>
                (ret.value <=> ParameterType_lt(arg.self.params, arg.other.params) = "True")
    /\ Done("sorted") => ret.ok /\ ret.value


\* C13: Value.encode raises an internal error for every Value whose type is
\* not Boolean, Int, Char, Array(Int) or Array(Char), such as Byte, Long,
\* Float, Double, Reference, Object or an Array of another element type, and
\* never returns a result for it.
C13_EncodeRejectsOtherTypes ==
    (Done("Value.encode") /\ arg.type \notin ValueTypes) => ~ret.ok


-----------------------------------------------------------------------------
(* ParameterType.decode, one pass of its while loop at a time.             *)

\* The raw strings given to ParameterType.decode: some descriptors, and
\* after them nothing, a "[" without a tag, or an x.
ParamsDescriptors ==
    {<<"I">>, <<"[", "C">>, <<"[", "[", "J">>, <<"L", "a", ";">>, <<"A">>}
ParamsEndings == {<<>>, <<"[">>, <<"x">>}
ParamsInputs ==
    {Concat(ds) \o e : ds \in SeqsUpTo(ParamsDescriptors, MaxParams), e \in ParamsEndings}

\* The locals of the running ParameterType.decode, kept in ret until it
\* returns or raises.
Frame(input, params) ==
    [ok |-> FALSE, err |-> "running", input |-> input, params |-> params]

\* params.append(tt), with the prepending variant
params_prepend(params, tt) == <<tt>> \o params
params_append(params, tt) == Append(params, tt)

\* No call of ParameterType.decode has been made.
InitParams ==
    /\ pc = "idle"
    /\ op = "ParameterType.decode"
    /\ arg = <<>>
    /\ ret = Pending
    /\ heap = <<>>
    /\ base = EmptyTables
    /\ legacy = EmptyLegacy
    /\ decoded = {}
    /\ keyed = {}

\* ParameterType.decode(input) is called: params = []
ParamsCall ==
    /\ pc = "idle"
    /\ \E input \in ParamsInputs :
          /\ arg' = input
          /\ ret' = Frame(input, <<>>)
    /\ pc' = "loop"
    /\ UNCHANGED <<op, heap, base, legacy, decoded, keyed>>

\* A pass of the loop: (tt, input) = Type.decode(input); params.append(tt)
ParamsPass ==
    /\ pc = "loop" /\ ret.input # <<>>
    /\ LET r == Type_decode(ret.input)
           m == Construct(heap, base, "base", r.type)
       IN  /\ r.ok
           /\ pc' = "loop"
           /\ ret' = Frame(r.rest, params_append(ret.params, r.type))
           /\ heap' = m.heap
           /\ base' = m.tbl
           /\ UNCHANGED <<op, arg, legacy, decoded, keyed>>

\* A pass of the loop in which Type.decode raises
ParamsRaise ==
    /\ pc = "loop" /\ ret.input # <<>>
    /\ LET r == Type_decode(ret.input)
       IN  /\ ~r.ok
           /\ pc' = "done"
           /\ ret' = Err(r.err, ret.params)
           /\ UNCHANGED <<op, arg, heap, base, legacy, decoded, keyed>>

\* input is empty: return ParameterType(tuple(params))
ParamsReturn ==
    /\ pc = "loop" /\ ret.input = <<>>
    /\ pc' = "done"
    /\ ret' = Ok(ParameterType(ret.params), ret.params)
    /\ UNCHANGED <<op, arg, heap, base, legacy, decoded, keyed>>

NextParams ==
    \/ ParamsCall
    \/ ParamsPass
    \/ ParamsRaise
    \/ ParamsReturn

\* The one caller keeps running until the call has returned or raised.
SpecParams == InitParams /\ [][NextParams]_vars /\ WF_vars(NextParams)

\* s is, from position i on, a sequence of type descriptors: each some "["
\* and then a primitive tag, an A, or an L with a name up to its ";".
RECURSIVE DescriptorsFrom(_, _)
DescriptorsFrom(s, i) ==
    IF i > Len(s) THEN TRUE
    ELSE LET tag == i + LeadingBrackets(From(s, i))
             ends == {j \in (tag + 2)..Len(s) : s[j] = ";"}
         IN  /\ tag <= Len(s)
             /\ \/ /\ s[tag] \in {"Z", "I", "B", "C", "J", "F", "D", "A"}
                   /\ DescriptorsFrom(s, tag + 1)
                \/ /\ s[tag] = "L" /\ ends # {}
                   /\ DescriptorsFrom(s, (CHOOSE j \in ends : \A k \in ends : j <= k) + 1)

\* What holds of the loop at each of its states.
ParamsLoopInvariant ==
    /\ pc = "loop" => Len(ret.params) + Len(ret.input) <= Len(arg)
    /\ pc = "done" =>
          /\ ret.ok => /\ Len(ret.value._elements) <= Len(arg)
                       /\ ParameterType_encode(ret.value) = arg
          /\ ~DescriptorsFrom(arg, 1) => ~ret.ok
          /\ arg = <<>> => ret.ok /\ ret.value = ParameterType(<<>>)

\* Each pass that goes on leaves a remainder strictly shorter than its input.
ParamsPassShrinks ==
    (pc = "loop" /\ pc' = "loop") => Len(ret'.input) < Len(ret.input)

\* C15: ParameterType.decode terminates on every input: each Type.decode call
\* of its loop raises or returns a remainder strictly shorter than its input,
\* so the loop makes at most len(input) passes; it returns the types in
\* left-to-right order, fails if a part of the input is no type descriptor,
\* and ParameterType.decode("") yields a parameter list of length zero.
C15_ParameterTypeDecodeTerminates ==
    /\ []ParamsLoopInvariant
    /\ [][ParamsPassShrinks]_vars
    /\ <>(pc = "done")

\* "I[C" has been decoded, in two passes, to the types Int and Array(Char)
\* in that order.
C15_Witness ==
    /\ Done("ParameterType.decode")
    /\ arg = <<"I", "[", "C">>
    /\ ret.ok
    /\ ret.value = ParameterType(<<Int_, Array(Char)>>)

=============================================================================
